---- MODULE Spec2Model ----
(***************************************************************************)
(* Model of paper1_replication_v3.py: the statistics primitives            *)
(* (odds_ratio, pct) and the run of main() over a loaded record set.       *)
(*                                                                         *)
(* Strings are sequences of tokens; the token " " is one whitespace        *)
(* character and every other token is a run of non-blank text, so that     *)
(* str.strip() is a real operation (Strip).  Python floats are modelled as *)
(* rationals [n, d]; the results of math.sqrt / math.log / math.exp are    *)
(* fixed-point numbers with denominator SCALE.                             *)
(***************************************************************************)
EXTENDS Integers, Sequences, FiniteSets, TLC

VARIABLES
    fn_name,      \* primitive under call ("odds_ratio", "pct") or "none"
    fn_args,      \* its actual arguments
    fn_ret,       \* its outcome: a return value or a raised exception
    pc,           \* position of main()
    paths_exist,  \* which of paths_to_try exist on the file system
    data_path,    \* index of the chosen candidate path, 0 = None
    md5_match,    \* file_md5 == EXPECTED_MD5
    rows,         \* records loaded by csv.DictReader
    out,          \* section headers printed so far
    stepsDone,    \* steps whose body ran to its end
    exit_status,  \* process exit status, -1 while running
    res           \* values computed by the steps, keyed by the source's names

vars == <<fn_name, fn_args, fn_ret, pc, paths_exist, data_path, md5_match,
          rows, out, stepsDone, exit_status, res>>

fnVars == <<fn_name, fn_args, fn_ret>>
runVars == <<pc, paths_exist, data_path, md5_match, rows, out, stepsDone,
             exit_status, res>>

----------------------------------------------------------------------------
(* Bounds *)

MaxCell == 4      \* largest cell count handed to odds_ratio
MaxPct == 10      \* largest num / denom handed to pct
MaxRows == 4      \* largest number of records in a data file of mixed rows
MaxRecords == 20  \* largest number of records in a data file of blocks
SCALE == 10000    \* fixed-point denominator of sqrt / log / exp results

----------------------------------------------------------------------------
(* Floats *)

INF == [k |-> "inf", n |-> 1, d |-> 1]
Fin(n, d) == [k |-> "fin", n |-> n, d |-> d]
Fix(v) == Fin(v, SCALE)
IsInf(x) == x.k = "inf"

\* x < y on floats (denominators are positive)
FLt(x, y) ==
    IF IsInf(x) THEN FALSE
    ELSE IF IsInf(y) THEN TRUE
    ELSE IF x.d = y.d THEN x.n < y.n
    ELSE x.n * y.d < y.n * x.d

FEq(x, y) ==
    IF IsInf(x) \/ IsInf(y) THEN IsInf(x) /\ IsInf(y)
    ELSE IF x.d = y.d THEN x.n = y.n
    ELSE x.n * y.d = y.n * x.d

\* the fixed-point value of a finite float
ToFix(x) == (x.n * SCALE) \div x.d

Ok(v) == [exc |-> "none", val |-> v]
Raise(e) == [exc |-> e, val |-> Fin(0, 1)]

\* int / int
TrueDiv(x, y) == IF y = 0 THEN Raise("ZeroDivisionError") ELSE Ok(Fin(x, y))

Min4(a, b, c, d) ==
    LET m1 == IF a < b THEN a ELSE b
        m2 == IF c < d THEN c ELSE d
    IN  IF m1 < m2 THEN m1 ELSE m2

\* the largest r in lo..hi with r * r <= x
RECURSIVE ISqrt(_, _, _)
ISqrt(x, lo, hi) ==
    IF lo >= hi THEN lo
    ELSE LET mid == (lo + hi + 1) \div 2
         IN  IF mid * mid <= x THEN ISqrt(x, mid, hi)
             ELSE ISqrt(x, lo, mid - 1)

\* math.sqrt on a fixed-point argument (at most 4, the sum of four 1/n)
Sqrt(v) == ISqrt(v * SCALE, 0, 2 * SCALE + 8)

LN2 == (6931 * SCALE) \div 10000

RECURSIVE LnNorm(_, _)
LnNorm(v, k) ==
    IF v >= 2 * SCALE THEN LnNorm(v \div 2, k + 1)
    ELSE IF v < SCALE THEN LnNorm(v * 2, k - 1)
    ELSE <<v, k>>

\* 2 atanh(z) by its series, z2 = z * z
AtanhSeries(z, z2) ==
    LET z3 == (z * z2) \div SCALE
        z5 == (z3 * z2) \div SCALE
        z7 == (z5 * z2) \div SCALE
        z9 == (z7 * z2) \div SCALE
    IN  2 * (z + z3 \div 3 + z5 \div 5 + z7 \div 7 + z9 \div 9)

Atanh2(z) == AtanhSeries(z, (z * z) \div SCALE)

\* ln(y * 2^k), 1 <= y < 2: k ln2 + 2 atanh((y - 1) / (y + 1))
LnOfNorm(nk) ==
    nk[2] * LN2 + Atanh2(((nk[1] - SCALE) * SCALE) \div (nk[1] + SCALE))

\* ln(v) of a positive fixed-point v
Ln(v) == LnOfNorm(LnNorm(v, 0))

\* math.log
math_log(x) == IF x.n <= 0 THEN Raise("ValueError") ELSE Ok(Ln(ToFix(x)))

\* e^r * 2^k, 0 <= r < ln2, by the series of e^r
ExpReduced(k, r) ==
    LET t2 == (r * r) \div (2 * SCALE)
        t3 == (t2 * r) \div (3 * SCALE)
        t4 == (t3 * r) \div (4 * SCALE)
        t5 == (t4 * r) \div (5 * SCALE)
        t6 == (t5 * r) \div (6 * SCALE)
        t7 == (t6 * r) \div (7 * SCALE)
        e == SCALE + r + t2 + t3 + t4 + t5 + t6 + t7
    IN  IF k >= 0 THEN e * (2 ^ k) ELSE e \div (2 ^ (0 - k))

ExpSplit(x, k) == ExpReduced(k, x - k * LN2)

\* math.exp of a fixed-point x: x = k ln2 + r
Exp(x) == ExpSplit(x, x \div LN2)

----------------------------------------------------------------------------
(* Utility functions *)

Return3(x, lo, hi) == [exc |-> "none", OR |-> x, ci_lo |-> lo, ci_hi |-> hi]
Raise3(e) ==
    [exc |-> e, OR |-> Fin(0, 1), ci_lo |-> Fin(0, 1), ci_hi |-> Fin(0, 1)]

OR_value_swapped(a, b, c, d) == TrueDiv(a * c, b * d)

\* OR = (a * d) / (b * c)
OR_value(a, b, c, d) == TrueDiv(a * d, b * c)

\* se_ln = math.sqrt(1/a + 1/b + 1/c + 1/d) if min(a,b,c,d) > 0 else inf
se_ln(a, b, c, d) ==
    IF Min4(a, b, c, d) > 0
    THEN [inf |-> FALSE,
          v |-> Sqrt(SCALE \div a + SCALE \div b + SCALE \div c + SCALE \div d)]
    ELSE [inf |-> TRUE, v |-> 0]

ci_bounds_swapped(ln_or, se) ==
    [ci_lo |-> Exp(ln_or + (196 * se) \div 100),
     ci_hi |-> Exp(ln_or - (196 * se) \div 100)]

\* exp(ln_or -/+ 1.96 * se_ln)
ci_bounds(ln_or, se) ==
    [ci_lo |-> Exp(ln_or - (196 * se) \div 100),
     ci_hi |-> Exp(ln_or + (196 * se) \div 100)]

ReturnCI(OR, ci) == Return3(OR, Fix(ci.ci_lo), Fix(ci.ci_hi))

\* lines 96-99, given OR, se_ln and the outcome l of math.log(OR)
woolf_ci(OR, se, l) ==
    IF l.exc # "none" THEN Raise3(l.exc)
    ELSE IF se.inf
         \* exp(ln_or - inf) = 0.0, exp(ln_or + inf) = inf
         THEN Return3(OR, Fin(0, 1), INF)
         ELSE ReturnCI(OR, ci_bounds(l.val, se.v))

\* lines 95-99, given the outcome q of the division on line 93
woolf_from(a, b, c, d, q) ==
    IF q.exc # "none" THEN Raise3(q.exc)
    ELSE woolf_ci(q.val, se_ln(a, b, c, d), math_log(q.val))

\* odds_ratio past its guard: Woolf's method for the log-OR interval
woolf(a, b, c, d) == woolf_from(a, b, c, d, OR_value(a, b, c, d))

odds_ratio_guard_b_only(a, b, c, d) ==
    IF b = 0 THEN Return3(INF, INF, INF) ELSE woolf(a, b, c, d)

odds_ratio(a, b, c, d) ==
    IF b = 0 \/ c = 0 THEN Return3(INF, INF, INF) ELSE woolf(a, b, c, d)

PctOf(q) == IF q.exc # "none" THEN q ELSE Ok(Fin(q.val.n * 100, q.val.d))

pct_unguarded(num, denom) == PctOf(TrueDiv(num, denom))

pct(num, denom) ==
    IF denom > 0 THEN PctOf(TrueDiv(num, denom)) ELSE Ok(Fin(0, 1))

INFINITY_SYMBOL == "(infinity symbol)"

\* a printed odds ratio: digits ("number"), the text "inf", or the symbol
Rendered(kind, tenths) == [kind |-> kind, tenths |-> tenths]

\* n / d rounded to an integer, a tie going to the even neighbour
RoundHalfEven(n, d) ==
    IF 2 * (n % d) < d THEN n \div d
    ELSE IF 2 * (n % d) > d THEN (n \div d) + 1
    ELSE IF (n \div d) % 2 = 0 THEN n \div d
    ELSE (n \div d) + 1

\* f"{x:.1f}" of a non-negative float: "inf" for the infinity, else the value
\* to one decimal (a tie that is no binary fraction is printed from its
\* nearest double; it is rounded here as an exact tie)
format_1f(x) ==
    IF IsInf(x) THEN Rendered("inf", 0)
    ELSE Rendered("number", RoundHalfEven(x.n * 10, x.d))

----------------------------------------------------------------------------
(* Strings *)

WS == " "
Str(t) == <<t>>
Blank == <<>>

RECURSIVE LStrip(_)
LStrip(s) == IF s # <<>> /\ Head(s) = WS THEN LStrip(Tail(s)) ELSE s

RECURSIVE RStrip(_)
RStrip(s) ==
    IF s # <<>> /\ s[Len(s)] = WS THEN RStrip(SubSeq(s, 1, Len(s) - 1)) ELSE s

\* str.strip()
Strip(s) == RStrip(LStrip(s))

\* truth value of a str
Truthy(s) == s # <<>>

Range(f) == {f[i] : i \in DOMAIN f}

----------------------------------------------------------------------------
(* Configuration *)

NumPaths == 4

\* (the accented spelling of Sao Tome and Principe is written in ASCII)
SIDS_COUNTRIES == { Str(n) : n \in {
    "Antigua and Barbuda", "Bahamas, The", "Barbados", "Belize", "Cabo Verde",
    "Comoros", "Cuba", "Dominica", "Dominican Republic", "Fiji",
    "Grenada", "Guinea-Bissau", "Guyana", "Haiti", "Jamaica",
    "Kiribati", "Maldives", "Marshall Islands", "Mauritius",
    "Micronesia, Fed. Sts.", "Nauru", "Palau", "Papua New Guinea",
    "St. Kitts and Nevis", "St. Lucia", "St. Vincent and the Grenadines",
    "Samoa", "Sa~o Tome' and Pri'ncipe", "Sao Tome and Principe",
    "Seychelles", "Singapore", "Solomon Islands", "Suriname",
    "Timor-Leste", "Tonga", "Trinidad and Tobago", "Tuvalu", "Vanuatu",
    "Cape Verde", "Saint Kitts and Nevis", "Saint Lucia",
    "Saint Vincent and the Grenadines", "Federated States of Micronesia" } }

PACIFIC_COUNTRIES == { Str(n) : n \in {
    "Fiji", "Kiribati", "Marshall Islands", "Micronesia, Fed. Sts.",
    "Nauru", "Palau", "Papua New Guinea", "Samoa", "Solomon Islands",
    "Timor-Leste", "Tonga", "Tuvalu", "Vanuatu",
    "Federated States of Micronesia" } }

SAT_RATINGS == { Str("Highly Satisfactory"), Str("Satisfactory") }
UNSAT_RATINGS == { Str("Highly Unsatisfactory"), Str("Unsatisfactory") }
BROAD_SAT == { Str("Highly Satisfactory"), Str("Satisfactory"),
               Str("Moderately Satisfactory") }
BROAD_UNSAT == { Str("Highly Unsatisfactory"), Str("Unsatisfactory"),
                 Str("Moderately Unsatisfactory") }

----------------------------------------------------------------------------
(* Data files *)

\* one csv.DictReader row: every column of the header is present
Row(outcome, qe, qs, me, et, country, gp, pg, region, fy, lg, fcs) ==
    [Outcome |-> outcome, QE |-> qe, QoS |-> qs, ME |-> me, EvalType |-> et,
     Country |-> country, GP |-> gp, PG |-> pg, Region |-> region,
     FY |-> fy, LG |-> lg, FCS |-> fcs]

\* the rows a data file is made of
SampleRows == <<
    Row(Str("Satisfactory"), Str("Satisfactory"), Str("Satisfactory"),
        Str("Substantial"), Str("PPAR"), Str("Fiji"),
        Str("Energy"), Blank, Str("EAP"), Str("1987"),
        Str("IDA"), Str("Non-FCS")),
    Row(Str("Unsatisfactory"), Str("Satisfactory"), Str("Unsatisfactory"),
        Str("Not Applicable"), Str("ICRR"), Str("Singapore"),
        Blank, Str("Infrastructure"), Str("EAP"), Str("1965"),
        Str("IBRD"), Blank),
    Row(Str("Satisfactory"), Str("Unsatisfactory"), Str("Satisfactory"),
        <<"Modest", WS>>, Str("ICRR"), Str("Australia"),
        Str("Energy"), Str("Infrastructure"), Blank, Str("abc"),
        Blank, Str("FCS")),
    Row(Str("Unsatisfactory"), Str("Unsatisfactory"), Str("Unsatisfactory"),
        Str("Negligible"), Str("ICRR"), <<WS, "Fiji", WS>>,
        Blank, <<WS>>, Str("AFR"), <<WS, "1987", WS>>,
        Str("IDA"), Str("Non-FCS")),
    Row(Str("Moderately Satisfactory"), <<WS, "Highly Satisfactory", WS>>,
        Str("Highly Satisfactory"), Str("High"), Str("PPAR"), Str("Kiribati"),
        <<WS, "Energy">>, Blank, Str("AFR"), Str("2004"),
        <<"IDA", WS>>, Str("FCS")),
    Row(Str("Moderately Unsatisfactory"), Str("Moderately Satisfactory"),
        Str("Moderately Unsatisfactory"), Blank, Blank, Str("Singapore"),
        Str("Energy"), Blank, Str("EAP"), Blank,
        Str("IBRD"), Str("FCS")),
    Row(<<WS>>, Str("Satisfactory"), Str("Satisfactory"),
        Str("Substantial"), Str("PPAR"), Str("Fiji"),
        Str("Energy"), Blank, Str("EAP"), Str("1987"),
        Str("IDA"), Str("Non-FCS")),
    Row(Str("Satisfactory"), <<WS>>, Blank,
        Str("Modest"), Str("ICRR"), Str("Tonga"),
        Str("Water"), Blank, Str("EAP"), Str("1995"),
        Str("IDA"), Str("Non-FCS")),
    Row(Str("Not Rated"), Str("Highly Unsatisfactory"), Str("Highly Unsatisfactory"),
        Str("Substantial"), Str("ICRR"), Blank,
        Str("Water"), Blank, Str("AFR"), Str("1999"),
        Str("IBRD"), Str("FCS")) >>

NumSamples == Len(SampleRows)

\* data files of at most MaxRows rows; every aggregate of the report is a
\* count, so files are listed up to the order of their rows
IndexLists ==
    { s \in UNION { [1..n -> 1..NumSamples] : n \in 0..MaxRows } :
        \A i \in 1..(Len(s) - 1) : s[i] <= s[i + 1] }

MixedFiles == { [i \in 1..Len(s) |-> SampleRows[s[i]]] : s \in IndexLists }

\* the rows of a block: one project of each strict kind (QE high / low,
\* outcome satisfactory / not), all in one sector, decade and lending group,
\* two regions and two FCS classes
BlockRows == <<
    Row(Str("Satisfactory"), Str("Highly Satisfactory"), Blank,
        Str("Substantial"), Str("PPAR"), Str("India"),
        Str("Energy"), Blank, Str("EAP"), Str("1987"),
        Str("IDA"), Str("Non-FCS")),
    Row(Str("Unsatisfactory"), Str("Satisfactory"), Blank,
        Str("Not Applicable"), Str("ICRR"), Str("India"),
        Str("Energy"), Blank, Str("EAP"), Str("1987"),
        Str("IDA"), Str("FCS")),
    Row(Str("Satisfactory"), Str("Unsatisfactory"), Blank,
        Str("Not Rated"), Str("ICRR"), Str("India"),
        Str("Energy"), Blank, Str("AFR"), Str("1987"),
        Str("IDA"), Str("FCS")),
    Row(Str("Unsatisfactory"), Str("Highly Unsatisfactory"), Blank,
        Str("Negligible"), Str("ICRR"), Str("India"),
        Str("Energy"), Blank, Str("AFR"), Str("1987"),
        Str("IDA"), Str("Non-FCS")) >>

\* the blocks: the non-empty selections of block rows, in file order
Blocks ==
    { SelectSeq(BlockRows, LAMBDA r : r \in S) :
        S \in (SUBSET Range(BlockRows)) \ { {} } }

\* m copies of a block, one after the other
Replicate(block, m) ==
    [i \in 1..(Len(block) * m) |-> block[((i - 1) % Len(block)) + 1]]

\* data files large enough for the stratified tables to print rows
BlockFiles ==
    { Replicate(bm[1], bm[2]) :
        bm \in { x \in Blocks \X (1..MaxRecords) :
                   Len(x[1]) * x[2] <= MaxRecords } }

DataFiles == MixedFiles \cup BlockFiles

\* the decimal literals int() is handed in the sample rows
IntLiterals == ("1965" :> 1965) @@ ("1987" :> 1987) @@ ("1995" :> 1995)
                 @@ ("1999" :> 1999) @@ ("2004" :> 2004)

\* int(str): surrounding whitespace is accepted, anything but one decimal
\* literal raises ValueError
int(s) ==
    LET t == Strip(s)
    IN  IF Len(t) = 1 /\ t[1] \in DOMAIN IntLiterals
        THEN [exc |-> "none", val |-> IntLiterals[t[1]]]
        ELSE [exc |-> "ValueError", val |-> 0]

outcome_sat(r) == Strip(r.Outcome) \in BROAD_SAT

\* sum(1 for r in recs if r['Outcome'].strip() in BROAD_SAT)
CountSat(recs) == Len(SelectSeq(recs, outcome_sat))

----------------------------------------------------------------------------
(* The primitives called on their own *)

Pending == [exc |-> "pending"]

FnIdle == fn_name = "none" /\ fn_args = <<>> /\ fn_ret = Pending

RunIdle ==
    /\ pc = "idle"
    /\ paths_exist = {}
    /\ data_path = 0
    /\ md5_match = FALSE
    /\ rows = <<>>
    /\ out = <<>>
    /\ stepsDone = {}
    /\ exit_status = -1
    /\ res = <<>>

InitFn ==
    /\ RunIdle
    /\ fn_ret = Pending
    /\ \/ /\ fn_name = "odds_ratio"
          /\ fn_args \in (0..MaxCell) \X (0..MaxCell) \X (0..MaxCell) \X (0..MaxCell)
       \/ /\ fn_name = "pct"
          /\ fn_args \in (0..MaxPct) \X (0..MaxPct)

Call_odds_ratio ==
    /\ fn_name = "odds_ratio"
    /\ fn_ret = Pending
    /\ fn_ret' = odds_ratio(fn_args[1], fn_args[2], fn_args[3], fn_args[4])
    /\ UNCHANGED <<fn_name, fn_args>>
    /\ UNCHANGED runVars

Call_pct ==
    /\ fn_name = "pct"
    /\ fn_ret = Pending
    /\ fn_ret' = pct(fn_args[1], fn_args[2])
    /\ UNCHANGED <<fn_name, fn_args>>
    /\ UNCHANGED runVars

NextFn == Call_odds_ratio \/ Call_pct

SpecFn == InitFn /\ [][NextFn]_vars

----------------------------------------------------------------------------
(* main() *)

PathSets == { {}, {2, 4} }

Init ==
    /\ FnIdle
    /\ pc = "start"
    /\ paths_exist \in PathSets
    /\ data_path = 0
    /\ md5_match = FALSE
    /\ rows = <<>>
    /\ out = <<>>
    /\ stepsDone = {}
    /\ exit_status = -1
    /\ res = <<>>

\* an uncaught exception ends the process with a traceback and status 1
Crash(step, e) ==
    /\ pc' = "crashed"
    /\ exit_status' = 1
    /\ res' = [crashed_in |-> step, exception |-> e] @@ res
    /\ UNCHANGED stepsDone

\* the step's body ran to its end
Finish(step, next, computed) ==
    /\ pc' = next
    /\ res' = computed @@ res
    /\ stepsDone' = stepsDone \cup {step}
    /\ UNCHANGED exit_status

\* an uncaught exception inside a printing loop: what ran before it stays
CrashKeep(step, e, computed) ==
    /\ pc' = "crashed"
    /\ exit_status' = 1
    /\ res' = [crashed_in |-> step, exception |-> e] @@ computed @@ res
    /\ UNCHANGED stepsDone

\* a step's body r either raised r.exc or computed r.computed
Conclude(step, next, r) ==
    IF r.exc # "none" THEN Crash(step, r.exc)
    ELSE Finish(step, next, r.computed)

Body(e, computed) == [exc |-> e, computed |-> computed]

\* the first exception raised in a sequence of outcomes
RECURSIVE FirstExc(_)
FirstExc(es) ==
    IF es = <<>> THEN "none"
    ELSE IF Head(es) # "none" THEN Head(es)
    ELSE FirstExc(Tail(es))

\* the first existing candidate path, or exit(1)
FindFile ==
    /\ pc = "start"
    /\ IF paths_exist \cap (1..NumPaths) = {}
       THEN /\ pc' = "aborted"
            /\ exit_status' = 1
            /\ out' = Append(out, "ERROR: Cannot find")
            /\ UNCHANGED data_path
       ELSE /\ data_path' = CHOOSE p \in paths_exist :
                               \A q \in paths_exist : p <= q
            /\ pc' = "step1"
            /\ UNCHANGED <<exit_status, out>>
    /\ UNCHANGED <<paths_exist, md5_match, rows, stepsDone, res>>
    /\ UNCHANGED fnVars

Step1 ==
    /\ pc = "step1"
    /\ out' = Append(out, "STEP 1: DATASET VERIFICATION")
    /\ md5_match' \in BOOLEAN
    /\ pc' = "step2"
    /\ stepsDone' = stepsDone \cup {"step1"}
    /\ UNCHANGED <<paths_exist, data_path, rows, exit_status, res>>
    /\ UNCHANGED fnVars

Step2 ==
    /\ pc = "step2"
    /\ out' = Append(out, "STEP 2: DATA LOADING")
    /\ rows' \in DataFiles
    /\ Finish("step2", "step3", [total |-> Len(rows')])
    /\ UNCHANGED <<paths_exist, data_path, md5_match>>
    /\ UNCHANGED fnVars

\* the non-blank stripped values of a column, with their numbers of rows
CountValues(col, vals) ==
    [v \in vals |-> Cardinality({ i \in DOMAIN col : Strip(col[i]) = v })]

\* the defaultdict(int) of one column
ValueCounts(col) ==
    CountValues(col, { Strip(col[i]) : i \in DOMAIN col } \ { Blank })

Step3 ==
    /\ pc = "step3"
    /\ out' = Append(out, "STEP 3: COLUMN VALUE DISTRIBUTIONS")
    /\ Finish("step3", "step4",
         [outcome_counts |-> ValueCounts([i \in DOMAIN rows |-> rows[i].Outcome]),
          qe_counts |-> ValueCounts([i \in DOMAIN rows |-> rows[i].QE]),
          qs_counts |-> ValueCounts([i \in DOMAIN rows |-> rows[i].QoS]),
          me_counts |-> ValueCounts([i \in DOMAIN rows |-> rows[i].ME]),
          eval_counts |-> ValueCounts([i \in DOMAIN rows |-> rows[i].EvalType])])
    /\ UNCHANGED <<paths_exist, data_path, md5_match, rows>>
    /\ UNCHANGED fnVars

has_outcome == SelectSeq(rows, LAMBDA r : Truthy(Strip(r.Outcome)))
sat == SelectSeq(has_outcome, LAMBDA r : Strip(r.Outcome) \in BROAD_SAT)
unsat_complement ==
    SelectSeq(has_outcome, LAMBDA r : Strip(r.Outcome) \notin BROAD_SAT)
unsat == SelectSeq(has_outcome, LAMBDA r : Strip(r.Outcome) \in BROAD_UNSAT)

CountOutcome(label) ==
    Len(SelectSeq(has_outcome, LAMBDA r : Strip(r.Outcome) = Str(label)))

Step4Rates(n_rated, n_sat, n_unsat_broad, p1, p2) ==
    Body(FirstExc(<<p1.exc, p2.exc>>),
         [n_rated |-> n_rated, n_sat |-> n_sat,
          n_unsat_broad |-> n_unsat_broad,
          sat_rate |-> p1.val, unsat_rate |-> p2.val,
          n_hs |-> CountOutcome("Highly Satisfactory"),
          n_s |-> CountOutcome("Satisfactory"),
          n_ms |-> CountOutcome("Moderately Satisfactory"),
          n_mu |-> CountOutcome("Moderately Unsatisfactory"),
          n_u |-> CountOutcome("Unsatisfactory"),
          n_hu |-> CountOutcome("Highly Unsatisfactory")])

Step4Counts(n_rated, n_sat, n_unsat_broad) ==
    Step4Rates(n_rated, n_sat, n_unsat_broad,
               pct(n_sat, n_rated), pct(n_unsat_broad, n_rated))

Step4 ==
    /\ pc = "step4"
    /\ out' = Append(out, "STEP 4: CORE STATISTICS")
    /\ Conclude("step4", "step5",
                Step4Counts(Len(has_outcome), Len(sat), Len(unsat)))
    /\ UNCHANGED <<paths_exist, data_path, md5_match, rows>>
    /\ UNCHANGED fnVars

TwoByTwoRec(high_n, high_sat, low_n, low_sat, high_rate, low_rate, o) ==
    [exc |-> FirstExc(<<high_rate.exc, low_rate.exc, o.exc>>),
     called |-> TRUE,
     high_n |-> high_n, high_sat |-> high_sat, high_unsat |-> high_n - high_sat,
     low_n |-> low_n, low_sat |-> low_sat, low_unsat |-> low_n - low_sat,
     high_rate |-> high_rate.val, low_rate |-> low_rate.val,
     OR |-> o.OR, ci_lo |-> o.ci_lo, ci_hi |-> o.ci_hi,
     printed_OR |-> format_1f(o.OR)]

TwoByTwoCounts(high_n, high_sat, low_n, low_sat) ==
    TwoByTwoRec(high_n, high_sat, low_n, low_sat,
                pct(high_sat, high_n), pct(low_sat, low_n),
                odds_ratio(high_sat, high_n - high_sat,
                           low_sat, low_n - low_sat))

\* success counts, rates and odds ratio of a HIGH and a LOW group
TwoByTwo(high, low) ==
    TwoByTwoCounts(Len(high), CountSat(high), Len(low), CountSat(low))

Named(name, t) == Body(t.exc, (name :> t))

has_qe_outcome ==
    SelectSeq(rows, LAMBDA r : Truthy(Strip(r.QE)) /\ Truthy(Strip(r.Outcome)))

qe_high_broad ==
    SelectSeq(has_qe_outcome, LAMBDA r : Strip(r.QE) \in BROAD_SAT)
qe_high == SelectSeq(has_qe_outcome, LAMBDA r : Strip(r.QE) \in SAT_RATINGS)
qe_low == SelectSeq(has_qe_outcome, LAMBDA r : Strip(r.QE) \in UNSAT_RATINGS)

Step5 ==
    /\ pc = "step5"
    /\ out' = Append(out, "STEP 5: QUALITY AT ENTRY - STRICT ANALYSIS")
    /\ Conclude("step5", "step5b", Named("qe", TwoByTwo(qe_high, qe_low)))
    /\ UNCHANGED <<paths_exist, data_path, md5_match, rows>>
    /\ UNCHANGED fnVars

qe_broad_high == SelectSeq(has_qe_outcome, LAMBDA r : Strip(r.QE) \in BROAD_SAT)
qe_broad_low == SelectSeq(has_qe_outcome, LAMBDA r : Strip(r.QE) \in BROAD_UNSAT)

Step5b ==
    /\ pc = "step5b"
    /\ out' = Append(out, "STEP 5b: QUALITY AT ENTRY - BROAD ANALYSIS")
    /\ Conclude("step5b", "step6",
                Named("qe_broad", TwoByTwo(qe_broad_high, qe_broad_low)))
    /\ UNCHANGED <<paths_exist, data_path, md5_match, rows>>
    /\ UNCHANGED fnVars

has_qs_outcome ==
    SelectSeq(rows, LAMBDA r : Truthy(Strip(r.QoS)) /\ Truthy(Strip(r.Outcome)))

qs_high == SelectSeq(has_qs_outcome, LAMBDA r : Strip(r.QoS) \in SAT_RATINGS)
qs_low == SelectSeq(has_qs_outcome, LAMBDA r : Strip(r.QoS) \in UNSAT_RATINGS)

Step6 ==
    /\ pc = "step6"
    /\ out' = Append(out, "STEP 6: QUALITY OF SUPERVISION - STRICT ANALYSIS")
    /\ Conclude("step6", "step7", Named("qs", TwoByTwo(qs_high, qs_low)))
    /\ UNCHANGED <<paths_exist, data_path, md5_match, rows>>
    /\ UNCHANGED fnVars

has_me_outcome ==
    SelectSeq(rows, LAMBDA r : Truthy(Strip(r.ME)) /\ Truthy(Strip(r.Outcome)))

ME_LEVELS == { "High", "Substantial", "Modest", "Negligible" }

me_row_rate(n, me_sat, me_rate) ==
    [exc |-> me_rate.exc, n |-> n, sat |-> me_sat, rate |-> me_rate.val]

me_row_counts(n, me_sat) == me_row_rate(n, me_sat, pct(me_sat, n))

me_row(me_group) == me_row_counts(Len(me_group), CountSat(me_group))

\* one pass of the loop over the M&E levels
me_level_row(me_level) ==
    me_row(SelectSeq(has_me_outcome, LAMBDA r : Strip(r.ME) = Str(me_level)))

Step7Body(t) ==
    Body(IF \E l \in DOMAIN t : t[l].exc # "none"
         THEN "ZeroDivisionError" ELSE "none",
         [me |-> t])

Step7 ==
    /\ pc = "step7"
    /\ out' = Append(out, "STEP 7: M&E QUALITY ANALYSIS")
    /\ Conclude("step7", "step8",
                Step7Body([l \in ME_LEVELS |-> me_level_row(l)]))
    /\ UNCHANGED <<paths_exist, data_path, md5_match, rows>>
    /\ UNCHANGED fnVars

has_all ==
    SelectSeq(rows, LAMBDA r : /\ Truthy(Strip(r.QE))
                               /\ Truthy(Strip(r.QoS))
                               /\ Truthy(Strip(r.Outcome)))

certify == SelectSeq(has_all, LAMBDA r : /\ Strip(r.QE) \in SAT_RATINGS
                                         /\ Strip(r.QoS) \in SAT_RATINGS)
reject == SelectSeq(has_all, LAMBDA r : /\ Strip(r.QE) \in UNSAT_RATINGS
                                        /\ Strip(r.QoS) \in UNSAT_RATINGS)

\* an odds ratio that was not asked for, and one that was
NoOR == [exc |-> "none", called |-> FALSE, OR |-> Fin(0, 1),
         ci_lo |-> Fin(0, 1), ci_hi |-> Fin(0, 1),
         printed_OR |-> Rendered("nothing", 0)]
CalledOR(o) == [exc |-> o.exc, called |-> TRUE, OR |-> o.OR,
                ci_lo |-> o.ci_lo, ci_hi |-> o.ci_hi,
                printed_OR |-> format_1f(o.OR)]

Step8Rec(certify_n, cert_sat, reject_n, rej_sat, cert_rate, rej_rate, o) ==
    Body(FirstExc(<<cert_rate.exc, rej_rate.exc, o.exc>>),
         [cert |-> [certify_n |-> certify_n, cert_sat |-> cert_sat,
                    cert_rate |-> cert_rate.val,
                    reject_n |-> reject_n, rej_sat |-> rej_sat,
                    rej_rate |-> rej_rate.val, OR_cert |-> o]])

Step8Counts(certify_n, cert_sat, reject_n, rej_sat) ==
    Step8Rec(certify_n, cert_sat, reject_n, rej_sat,
             pct(cert_sat, certify_n), pct(rej_sat, reject_n),
             IF certify_n > 0 /\ reject_n > 0
             THEN CalledOR(odds_ratio(cert_sat, certify_n - cert_sat,
                                      rej_sat, reject_n - rej_sat))
             ELSE NoOR)

Step8 ==
    /\ pc = "step8"
    /\ out' = Append(out, "STEP 8: CERTIFICATION (QE=S/HS AND QoS=S/HS)")
    /\ Conclude("step8", "step9",
                Step8Counts(Len(certify), CountSat(certify),
                            Len(reject), CountSat(reject)))
    /\ UNCHANGED <<paths_exist, data_path, md5_match, rows>>
    /\ UNCHANGED fnVars

sids_projects_nostrip ==
    SelectSeq(has_outcome, LAMBDA r : r.Country \in SIDS_COUNTRIES)

sids_projects ==
    SelectSeq(has_outcome, LAMBDA r : Strip(r.Country) \in SIDS_COUNTRIES)
pacific_projects ==
    SelectSeq(has_outcome, LAMBDA r : Strip(r.Country) \in PACIFIC_COUNTRIES)

GroupQESplit(g_high, g_low) ==
    IF g_high # <<>> /\ g_low # <<>> THEN TwoByTwo(g_high, g_low) ELSE NoOR

GroupQEOf(g_qe) ==
    GroupQESplit(SelectSeq(g_qe, LAMBDA r : Strip(r.QE) \in SAT_RATINGS),
                 SelectSeq(g_qe, LAMBDA r : Strip(r.QE) \in UNSAT_RATINGS))

\* the strict QE comparison inside one country group
GroupQE(projects) ==
    GroupQEOf(SelectSeq(projects, LAMBDA r : Truthy(Strip(r.QE))))

Step9Rec(sids_n, sids_sat, pac_n, pac_sat, sids_rate, pac_rate, sq, pq) ==
    Body(FirstExc(<<sids_rate.exc, pac_rate.exc, sq.exc, pq.exc>>),
         [sids |-> [n |-> sids_n, sat |-> sids_sat,
                    rate |-> sids_rate.val, qe |-> sq],
          pacific |-> [n |-> pac_n, sat |-> pac_sat,
                       rate |-> pac_rate.val, qe |-> pq]])

Step9Counts(sids_n, sids_sat, pac_n, pac_sat) ==
    Step9Rec(sids_n, sids_sat, pac_n, pac_sat,
             pct(sids_sat, sids_n), pct(pac_sat, pac_n),
             GroupQE(sids_projects), GroupQE(pacific_projects))

Step9 ==
    /\ pc = "step9"
    /\ out' = Append(out, "STEP 9: SIDS ANALYSIS")
    /\ Conclude("step9", "step10",
                Step9Counts(Len(sids_projects), CountSat(sids_projects),
                            Len(pacific_projects), CountSat(pacific_projects)))
    /\ UNCHANGED <<paths_exist, data_path, md5_match, rows>>
    /\ UNCHANGED fnVars

----------------------------------------------------------------------------
(* Stratified slices *)

SECTOR_MIN == 20
REGION_MIN == 10
DECADE_MIN == 10
GROUP_MIN == 5
DECADE_FLOOR == 1970

ZeroEntry == [high_sat |-> 0, high_total |-> 0, low_sat |-> 0, low_total |-> 0]

\* d[k] of a defaultdict
Entry(d, k) == IF k \in DOMAIN d THEN d[k] ELSE ZeroEntry

Put(d, k, v) == [x \in (DOMAIN d) \cup {k} |-> IF x = k THEN v ELSE d[x]]

Skip == [skip |-> TRUE, key |-> Blank]
Key(k) == [skip |-> FALSE, key |-> k]

AddHigh(e, s) == [e EXCEPT !.high_total = @ + 1, !.high_sat = @ + s]
AddLow_nototal(e, s) == [e EXCEPT !.low_sat = @ + s]
AddLow(e, s) == [e EXCEPT !.low_total = @ + 1, !.low_sat = @ + s]

\* 1 if the record's outcome is broadly satisfactory
SatBit(r) == IF outcome_sat(r) THEN 1 ELSE 0

AccumulateOne_else(d, r, k) ==
    IF k.skip THEN d
    ELSE IF Strip(r.QE) \in SAT_RATINGS
    THEN Put(d, k.key, AddHigh(Entry(d, k.key), SatBit(r)))
    ELSE Put(d, k.key, AddLow(Entry(d, k.key), SatBit(r)))

\* one pass of the accumulation loop body for record r under key k
AccumulateOne(d, r, k) ==
    IF k.skip THEN d
    ELSE IF Strip(r.QE) \in SAT_RATINGS
    THEN Put(d, k.key, AddHigh(Entry(d, k.key), SatBit(r)))
    ELSE IF Strip(r.QE) \in UNSAT_RATINGS
    THEN Put(d, k.key, AddLow(Entry(d, k.key), SatBit(r)))
    ELSE d

\* the dictionary after the first i records
RECURSIVE Accumulate(_, _, _)
Accumulate(recs, keys, i) ==
    IF i = 0 THEN <<>>
    ELSE AccumulateOne(Accumulate(recs, keys, i - 1), recs[i], keys[i])

\* the dictionary after the whole loop
AccumulateAll(recs, keys) == Accumulate(recs, keys, Len(recs))

SectorOf(gp, pg) == IF Truthy(gp) THEN gp ELSE pg

KeyOrSkip(k) == IF ~Truthy(k) THEN Skip ELSE Key(k)

sector_key(r) == KeyOrSkip(SectorOf(Strip(r.GP), Strip(r.PG)))

region_key(r) == KeyOrSkip(Strip(r.Region))

DecadeOf(fy) == (fy \div 10) * 10

decade_of_nofloor(fy) ==
    IF fy.exc # "none" THEN Skip ELSE Key(DecadeOf(fy.val))

decade_of(fy) ==
    IF fy.exc # "none" THEN Skip
    ELSE IF DecadeOf(fy.val) < DECADE_FLOOR THEN Skip
    ELSE Key(DecadeOf(fy.val))

decade_key(r) == decade_of(int(r.FY))

lending_key(r) == KeyOrSkip(Strip(r.LG))

fcs_key(r) == KeyOrSkip(Strip(r.FCS))

sectors_of(recs) ==
    AccumulateAll(recs, [i \in DOMAIN recs |-> sector_key(recs[i])])
regions_of(recs) ==
    AccumulateAll(recs, [i \in DOMAIN recs |-> region_key(recs[i])])
decades_of(recs) ==
    AccumulateAll(recs, [i \in DOMAIN recs |-> decade_key(recs[i])])
lending_groups_of(recs) ==
    AccumulateAll(recs, [i \in DOMAIN recs |-> lending_key(recs[i])])
fcs_groups_of(recs) ==
    AccumulateAll(recs, [i \in DOMAIN recs |-> fcs_key(recs[i])])

sectors == sectors_of(has_qe_outcome)
regions == regions_of(has_qe_outcome)
decades == decades_of(has_qe_outcome)
lending_groups == lending_groups_of(has_qe_outcome)
fcs_groups == fcs_groups_of(has_qe_outcome)

\* or_str = f"{OR:.1f}" if odds_ratio was called, else the symbol
or_str(o) ==
    IF o.called THEN o.printed_OR ELSE Rendered(INFINITY_SYMBOL, 0)

TableRowRec(n, h_rate, l_rate, h_fail, l_fail, o) ==
    [exc |-> FirstExc(<<h_rate.exc, l_rate.exc, o.exc>>),
     n |-> n, h_rate |-> h_rate.val, l_rate |-> l_rate.val,
     h_fail |-> h_fail, l_fail |-> l_fail, or_str |-> or_str(o)]

TableRowFails(s, h_fail, l_fail) ==
    TableRowRec(s.high_total + s.low_total,
                pct(s.high_sat, s.high_total), pct(s.low_sat, s.low_total),
                h_fail, l_fail,
                IF h_fail > 0 /\ s.low_sat > 0
                THEN CalledOR(odds_ratio(s.high_sat, h_fail, s.low_sat, l_fail))
                ELSE NoOR)

\* one printed row of a stratified table
TableRow(s) ==
    TableRowFails(s, s.high_total - s.high_sat, s.low_total - s.low_sat)

\* the rows printed for a dictionary: the keys that reach the threshold
Table(d, threshold) ==
    [k \in { x \in DOMAIN d :
               ~(d[x].high_total + d[x].low_total < threshold) }
       |-> TableRow(d[k])]

\* the labels of the data files in the order of str comparison
SortedLabels ==
    << Str("AFR"), Str("EAP"), Str("Energy"), Str("FCS"), Str("IBRD"),
       Str("IDA"), Str("Infrastructure"), Str("Non-FCS"), Str("Water") >>

\* the place of every key of d in sorted(d.keys()), for str keys
label_order(d) ==
    [k \in DOMAIN d |-> CHOOSE i \in DOMAIN SortedLabels : SortedLabels[i] = k]

\* the same for int keys
int_order(d) == [k \in DOMAIN d |-> k]

\* the keys whose row raises
Raising(t) == { k \in DOMAIN t : t[k].exc # "none" }

\* the exception the printing loop raised, if any: that of the first row
\* in sorted order that raises
TableExc(t, order) ==
    IF Raising(t) = {} THEN "none"
    ELSE t[CHOOSE k \in Raising(t) :
             \A j \in Raising(t) : order[k] <= order[j]].exc

\* the rows the loop printed: all of them, or those before the row that
\* raised
PrintedRows(t, order) ==
    [k \in { x \in DOMAIN t : \A j \in Raising(t) : order[x] < order[j] }
       |-> t[k]]

SliceRec(name, d, tname, t, order) ==
    Body(TableExc(t, order), (name :> d) @@ (tname :> PrintedRows(t, order)))

\* the accumulation and the printing loop of one slice
Slice(name, d, tname, threshold, order) ==
    SliceRec(name, d, tname, Table(d, threshold), order)

\* two slices in a row: the second runs if the first did not raise
Both(r1, r2) ==
    Body(FirstExc(<<r1.exc, r2.exc>>),
         IF r1.exc # "none" THEN r1.computed ELSE r1.computed @@ r2.computed)

\* the end of a step that accumulates and prints
ConcludeSlice(step, next, r) ==
    IF r.exc # "none" THEN CrashKeep(step, r.exc, r.computed)
    ELSE Finish(step, next, r.computed)

Step10 ==
    /\ pc = "step10"
    /\ out' = Append(out, "STEP 10: SECTOR ANALYSIS (STRICT QE)")
    /\ ConcludeSlice("step10", "step11",
                     Slice("sectors", sectors, "sector_table", SECTOR_MIN,
                           label_order(sectors)))
    /\ UNCHANGED <<paths_exist, data_path, md5_match, rows>>
    /\ UNCHANGED fnVars

Step11 ==
    /\ pc = "step11"
    /\ out' = Append(out, "STEP 11: REGION ANALYSIS (STRICT QE)")
    /\ ConcludeSlice("step11", "step12",
                     Slice("regions", regions, "region_table", REGION_MIN,
                           label_order(regions)))
    /\ UNCHANGED <<paths_exist, data_path, md5_match, rows>>
    /\ UNCHANGED fnVars

Step12 ==
    /\ pc = "step12"
    /\ out' = Append(out, "STEP 12: DECADE ANALYSIS (STRICT QE)")
    /\ ConcludeSlice("step12", "step13",
                     Slice("decades", decades, "decade_table", DECADE_MIN,
                           int_order(decades)))
    /\ UNCHANGED <<paths_exist, data_path, md5_match, rows>>
    /\ UNCHANGED fnVars

Step13 ==
    /\ pc = "step13"
    /\ out' = Append(out, "STEP 13: INCOME GROUP & FCS ANALYSIS (STRICT QE)")
    /\ ConcludeSlice("step13", "step14",
                     Both(Slice("lending_groups", lending_groups,
                                "lending_table", GROUP_MIN,
                                label_order(lending_groups)),
                          Slice("fcs_groups", fcs_groups, "fcs_table",
                                GROUP_MIN, label_order(fcs_groups))))
    /\ UNCHANGED <<paths_exist, data_path, md5_match, rows>>
    /\ UNCHANGED fnVars

----------------------------------------------------------------------------
(* Combined score *)

qae_map ==
    (Str("Highly Satisfactory") :> 5) @@ (Str("Satisfactory") :> 4)
      @@ (Str("Moderately Satisfactory") :> 3)
      @@ (Str("Moderately Unsatisfactory") :> 2)
      @@ (Str("Unsatisfactory") :> 1) @@ (Str("Highly Unsatisfactory") :> 1)

me_map ==
    (Str("High") :> 5) @@ (Str("Substantial") :> 4) @@ (Str("Modest") :> 3)
      @@ (<<"Modest", WS>> :> 3) @@ (Str("Negligible") :> 2)
      @@ (Str("Not Applicable") :> 1)

has_both_any_outcome ==
    SelectSeq(rows, LAMBDA r : /\ Strip(r.QE) \in DOMAIN qae_map
                               /\ Strip(r.ME) \in DOMAIN me_map)

has_both ==
    SelectSeq(rows, LAMBDA r : /\ Strip(r.QE) \in DOMAIN qae_map
                               /\ Strip(r.ME) \in DOMAIN me_map
                               /\ Truthy(Strip(r.Outcome)))

combined(r) == qae_map[Strip(r.QE)] + me_map[Strip(r.ME)]

score_bins_of(recs) ==
    [c \in { combined(recs[i]) : i \in DOMAIN recs } |->
       [total |-> Len(SelectSeq(recs, LAMBDA r : combined(r) = c)),
        sat |-> Len(SelectSeq(recs,
                    LAMBDA r : combined(r) = c /\ outcome_sat(r)))]]

score_bins == score_bins_of(has_both)

RECURSIVE SumTotals(_, _)
SumTotals(bins, scores) ==
    IF scores = {} THEN 0
    ELSE bins[CHOOSE x \in scores : \A y \in scores : x <= y].total
           + SumTotals(bins, scores \
                 {CHOOSE x \in scores : \A y \in scores : x <= y})

Step14Rec(bins, rates) ==
    Body(IF \E c \in DOMAIN rates : rates[c].exc # "none"
         THEN "ZeroDivisionError" ELSE "none",
         [score_bins |-> bins,
          score_rates |-> [c \in DOMAIN rates |-> rates[c].val],
          total_tier1 |-> SumTotals(bins, DOMAIN bins)])

Step14Bins(bins) ==
    Step14Rec(bins, [c \in DOMAIN bins |-> pct(bins[c].sat, bins[c].total)])

Step14 ==
    /\ pc = "step14"
    /\ out' = Append(out, "STEP 14: QAE + M&E COMBINED SCORE (TIER 1)")
    /\ Conclude("step14", "summary", Step14Bins(score_bins))
    /\ UNCHANGED <<paths_exist, data_path, md5_match, rows>>
    /\ UNCHANGED fnVars

SummaryOf(p) ==
    IF p.exc # "none"
    THEN Crash("summary", p.exc)
    ELSE /\ pc' = "done"
         /\ exit_status' = 0
         /\ stepsDone' = stepsDone \cup {"summary"}
         /\ UNCHANGED res

Summary ==
    /\ pc = "summary"
    /\ out' = Append(out, "SUMMARY: CORRECTED CANONICAL NUMBERS")
    /\ SummaryOf(pct(res.n_sat, res.n_rated))
    /\ UNCHANGED <<paths_exist, data_path, md5_match, rows>>
    /\ UNCHANGED fnVars

Next == FindFile \/ Step1 \/ Step2 \/ Step3 \/ Step4 \/ Step5 \/ Step5b
          \/ Step6 \/ Step7 \/ Step8 \/ Step9 \/ Step10 \/ Step11 \/ Step12
          \/ Step13 \/ Step14 \/ Summary

Spec == Init /\ [][Next]_vars

----------------------------------------------------------------------------
(* Properties of the primitives, checked under SpecFn *)

Returned == fn_ret.exc # "pending"
OddsRatioDone == fn_name = "odds_ratio" /\ Returned
PctDone == fn_name = "pct" /\ Returned
arg_a == fn_args[1]
arg_b == fn_args[2]
arg_c == fn_args[3]
arg_d == fn_args[4]

\* C1: odds_ratio never raises for non-negative cell counts; with b > 0 and
\* c > 0 but a = 0 or d = 0 it returns, with the upper bound infinite and the
\* lower bound degenerate (0 or infinite), instead of a numeric-domain error.
C1_OddsRatioNeverRaises ==
    OddsRatioDone =>
        /\ fn_ret.exc = "none"
        /\ (arg_b > 0 /\ arg_c > 0 /\ (arg_a = 0 \/ arg_d = 0)) =>
              /\ IsInf(fn_ret.ci_hi)
              /\ (IsInf(fn_ret.ci_lo) \/ fn_ret.ci_lo.n = 0)

\* C4: odds_ratio returns the infinity sentinel for ratio, ci_lo and ci_hi
\* whenever b = 0 or c = 0, whatever the other cells are, and returns the
\* sentinel ratio in no other case.
C4_SentinelIffZeroDenominator ==
    OddsRatioDone =>
        /\ (arg_b = 0 \/ arg_c = 0) =>
              /\ fn_ret.exc = "none"
              /\ IsInf(fn_ret.OR) /\ IsInf(fn_ret.ci_lo) /\ IsInf(fn_ret.ci_hi)
        /\ (fn_ret.exc = "none" /\ IsInf(fn_ret.OR)) => (arg_b = 0 \/ arg_c = 0)

C4_Witness ==
    /\ OddsRatioDone
    /\ arg_a = 0 /\ arg_b > 0 /\ arg_c = 0 /\ arg_d = 0
    /\ fn_ret.exc = "none" /\ IsInf(fn_ret.OR)

\* C5: for positive cell counts the returned ratio is (a * d) / (b * c).
C5_RatioIsCrossProduct ==
    (OddsRatioDone /\ arg_a > 0 /\ arg_b > 0 /\ arg_c > 0 /\ arg_d > 0) =>
        /\ fn_ret.exc = "none"
        /\ ~IsInf(fn_ret.OR)
        /\ fn_ret.OR.d # 0
        /\ fn_ret.OR.n * (arg_b * arg_c) = (arg_a * arg_d) * fn_ret.OR.d

C5_Witness ==
    /\ OddsRatioDone
    /\ fn_args = <<3, 1, 2, 4>>
    /\ fn_ret.exc = "none"
    /\ FEq(fn_ret.OR, Fin(6, 1))

\* C6: for positive cell counts the 95% bounds satisfy ci_lo < ratio < ci_hi;
\* the reverse ordering is never produced.
C6_BoundsBracketRatio ==
    (OddsRatioDone /\ arg_a > 0 /\ arg_b > 0 /\ arg_c > 0 /\ arg_d > 0) =>
        /\ fn_ret.exc = "none"
        /\ FLt(fn_ret.ci_lo, fn_ret.OR)
        /\ FLt(fn_ret.OR, fn_ret.ci_hi)
        /\ ~FLt(fn_ret.ci_hi, fn_ret.ci_lo)

C6_Witness ==
    /\ OddsRatioDone
    /\ fn_args = <<1, 4, 4, 1>>
    /\ fn_ret.exc = "none"
    /\ FLt(fn_ret.ci_lo, fn_ret.OR)
    /\ FLt(fn_ret.OR, Fin(1, 1))
    /\ FLt(Fin(1, 1), fn_ret.ci_hi)

\* C7: pct(num, denom) is num / denom * 100 when denom > 0 and 0, not an
\* error, when denom = 0; pct(0, 0) = 0, pct(5, 10) = 50, pct(3, 0) = 0.
C7_PctSafe ==
    PctDone =>
        /\ fn_ret.exc = "none"
        /\ arg_b > 0 => /\ fn_ret.val.d # 0
                        /\ fn_ret.val.n * arg_b = arg_a * 100 * fn_ret.val.d
        /\ arg_b = 0 => FEq(fn_ret.val, Fin(0, 1))
        /\ fn_args = <<5, 10>> => FEq(fn_ret.val, Fin(50, 1))

C7_Witness ==
    /\ PctDone
    /\ fn_args = <<3, 0>>
    /\ fn_ret.exc = "none"
    /\ FEq(fn_ret.val, Fin(0, 1))

----------------------------------------------------------------------------
(* Properties of the run, checked under Spec *)

FullReport == <<
    "STEP 1: DATASET VERIFICATION",
    "STEP 2: DATA LOADING",
    "STEP 3: COLUMN VALUE DISTRIBUTIONS",
    "STEP 4: CORE STATISTICS",
    "STEP 5: QUALITY AT ENTRY - STRICT ANALYSIS",
    "STEP 5b: QUALITY AT ENTRY - BROAD ANALYSIS",
    "STEP 6: QUALITY OF SUPERVISION - STRICT ANALYSIS",
    "STEP 7: M&E QUALITY ANALYSIS",
    "STEP 8: CERTIFICATION (QE=S/HS AND QoS=S/HS)",
    "STEP 9: SIDS ANALYSIS",
    "STEP 10: SECTOR ANALYSIS (STRICT QE)",
    "STEP 11: REGION ANALYSIS (STRICT QE)",
    "STEP 12: DECADE ANALYSIS (STRICT QE)",
    "STEP 13: INCOME GROUP & FCS ANALYSIS (STRICT QE)",
    "STEP 14: QAE + M&E COMBINED SCORE (TIER 1)",
    "SUMMARY: CORRECTED CANONICAL NUMBERS" >>

Terminated == pc \in {"done", "aborted", "crashed"}

\* C2: a run either completes and prints the full report with exit status
\* zero, or aborts before any report section is printed, and it aborts only
\* when none of the candidate paths exists; no loaded data file stops the run
\* after some sections were printed.
C2_AllOrNothing ==
    Terminated =>
        \/ /\ pc = "done"
           /\ exit_status = 0
           /\ out = FullReport
        \/ /\ pc = "aborted"
           /\ exit_status # 0
           /\ paths_exist = {}
           /\ \A i \in DOMAIN out : out[i] \notin Range(FullReport)

StrictSatLabels == { <<"Highly Satisfactory">>, <<"Satisfactory">> }
StrictUnsatLabels == { <<"Highly Unsatisfactory">>, <<"Unsatisfactory">> }
BroadSatLabels == StrictSatLabels \cup { <<"Moderately Satisfactory">> }
BroadUnsatLabels == StrictUnsatLabels \cup { <<"Moderately Unsatisfactory">> }

NonBlank(s) == \E i \in DOMAIN s : s[i] # " "

\* the text of s between its first and last non-blank token
Trimmed(s) ==
    IF ~NonBlank(s) THEN <<>>
    ELSE LET nb == { i \in DOMAIN s : s[i] # " " }
             first == CHOOSE i \in nb : \A j \in nb : i <= j
             last == CHOOSE i \in nb : \A j \in nb : j <= i
         IN  SubSeq(s, first, last)

\* records with non-blank QE and Outcome whose trimmed QE is a strict label
StrictIdx ==
    { i \in DOMAIN rows :
        /\ NonBlank(rows[i].QE)
        /\ NonBlank(rows[i].Outcome)
        /\ Trimmed(rows[i].QE) \in StrictSatLabels \cup StrictUnsatLabels }

RECURSIVE SumN(_, _)
SumN(d, ks) ==
    IF ks = {} THEN 0
    ELSE LET k == CHOOSE x \in ks : TRUE
         IN  d[k].high_total + d[k].low_total + SumN(d, ks \ {k})

PartitionSum(d) == SumN(d, DOMAIN d)

FYParses(r) ==
    /\ Len(Trimmed(r.FY)) = 1
    /\ Trimmed(r.FY)[1] \in {"1965", "1987", "1995", "1999", "2004"}

FYOf(r) ==
    LET t == Trimmed(r.FY)[1]
    IN  IF t = "1965" THEN 1965 ELSE IF t = "1987" THEN 1987
        ELSE IF t = "1995" THEN 1995 ELSE IF t = "1999" THEN 1999 ELSE 2004

BucketOf(r) == (FYOf(r) \div 10) * 10

HasSector(r) == NonBlank(r.GP) \/ NonBlank(r.PG)
HasRegion(r) == NonBlank(r.Region)
HasDecade(r) == FYParses(r) /\ BucketOf(r) >= 1970
HasLending(r) == NonBlank(r.LG)
HasFCS(r) == NonBlank(r.FCS)

\* the claim C3 as first stated: every strict record is counted in every slice
C3_Original ==
    /\ "step10" \in stepsDone =>
          PartitionSum(res.sectors) = Cardinality(StrictIdx)
    /\ "step11" \in stepsDone =>
          PartitionSum(res.regions) = Cardinality(StrictIdx)
    /\ "step12" \in stepsDone =>
          PartitionSum(res.decades) = Cardinality(StrictIdx)
    /\ "step13" \in stepsDone =>
          /\ PartitionSum(res.lending_groups) = Cardinality(StrictIdx)
          /\ PartitionSum(res.fcs_groups) = Cardinality(StrictIdx)

\* C3 (amended): in each stratified slice the sum over all partitions of
\* high_total + low_total equals the number of records with non-blank QE and
\* Outcome, a strict trimmed QE and a usable key for that slice (a non-blank
\* trimmed Global Practice or else Practice Group; a non-blank region, lending
\* group or FCS status; a fiscal year that parses with bucket >= 1970).
C3_PartitionSum ==
    /\ "step10" \in stepsDone =>
          PartitionSum(res.sectors)
            = Cardinality({ i \in StrictIdx : HasSector(rows[i]) })
    /\ "step11" \in stepsDone =>
          PartitionSum(res.regions)
            = Cardinality({ i \in StrictIdx : HasRegion(rows[i]) })
    /\ "step12" \in stepsDone =>
          PartitionSum(res.decades)
            = Cardinality({ i \in StrictIdx : HasDecade(rows[i]) })
    /\ "step13" \in stepsDone =>
          /\ PartitionSum(res.lending_groups)
               = Cardinality({ i \in StrictIdx : HasLending(rows[i]) })
          /\ PartitionSum(res.fcs_groups)
               = Cardinality({ i \in StrictIdx : HasFCS(rows[i]) })

C3_Witness ==
    /\ "step13" \in stepsDone
    /\ PartitionSum(res.sectors) > 0
    /\ PartitionSum(res.sectors) < Cardinality(StrictIdx)
    /\ PartitionSum(res.decades) > 0
    /\ PartitionSum(res.decades) < Cardinality(StrictIdx)
    /\ PartitionSum(res.fcs_groups) > 0

HighIdx ==
    { i \in DOMAIN rows : /\ NonBlank(rows[i].Outcome)
                          /\ Trimmed(rows[i].QE) \in StrictSatLabels }
LowIdx ==
    { i \in DOMAIN rows : /\ NonBlank(rows[i].Outcome)
                          /\ Trimmed(rows[i].QE) \in StrictUnsatLabels }
Successes(idx) ==
    Cardinality({ i \in idx : Trimmed(rows[i].Outcome) \in BroadSatLabels })

FourRecordScenario ==
    /\ Len(rows) = 4
    /\ [i \in 1..4 |-> <<rows[i].QE, rows[i].Outcome>>]
         = << <<Str("Satisfactory"), Str("Satisfactory")>>,
              <<Str("Satisfactory"), Str("Unsatisfactory")>>,
              <<Str("Unsatisfactory"), Str("Satisfactory")>>,
              <<Str("Unsatisfactory"), Str("Unsatisfactory")>> >>

\* C8: in Step 5 the HIGH group is the records with non-blank Outcome and a
\* trimmed QE in {Highly Satisfactory, Satisfactory}, the LOW group those in
\* {Highly Unsatisfactory, Unsatisfactory}, successes are the records whose
\* trimmed Outcome is broadly satisfactory; the four records (S,S), (S,U),
\* (U,S), (U,U) give n = 2 and 1 success (50%) in each group and OR = 1.0.
C8_StrictGroups ==
    "step5" \in stepsDone =>
        /\ res.qe.high_n = Cardinality(HighIdx)
        /\ res.qe.low_n = Cardinality(LowIdx)
        /\ res.qe.high_sat = Successes(HighIdx)
        /\ res.qe.low_sat = Successes(LowIdx)
        /\ FourRecordScenario =>
              /\ res.qe.high_n = 2 /\ res.qe.high_sat = 1
              /\ FEq(res.qe.high_rate, Fin(50, 1))
              /\ res.qe.low_n = 2 /\ res.qe.low_sat = 1
              /\ FEq(res.qe.low_rate, Fin(50, 1))
              /\ FEq(res.qe.OR, Fin(1, 1))

C8_Witness ==
    /\ "step5" \in stepsDone
    /\ FourRecordScenario
    /\ res.qe.high_n = 2
    /\ FEq(res.qe.OR, Fin(1, 1))

RatedIdx == { i \in DOMAIN rows : NonBlank(rows[i].Outcome) }
SatIdx == { i \in RatedIdx : Trimmed(rows[i].Outcome) \in BroadSatLabels }
UnsatIdx == { i \in RatedIdx : Trimmed(rows[i].Outcome) \in BroadUnsatLabels }
NeitherIdx == RatedIdx \ (SatIdx \cup UnsatIdx)

\* C9: the outcome classes broad-satisfactory, broad-unsatisfactory and
\* neither are mutually exclusive and exhaustive: every record with a
\* non-blank Outcome is counted in exactly one of them, none in both the
\* satisfactory and the unsatisfactory count, and n_sat + n_unsat_broad <=
\* n_rated.
C9_OutcomeClassesPartition ==
    "step4" \in stepsDone =>
        /\ res.n_rated = Cardinality(RatedIdx)
        /\ res.n_sat = Cardinality(SatIdx)
        /\ res.n_unsat_broad = Cardinality(UnsatIdx)
        /\ SatIdx \cap UnsatIdx = {}
        /\ res.n_sat + res.n_unsat_broad + Cardinality(NeitherIdx) = res.n_rated
        /\ res.n_sat + res.n_unsat_broad <= res.n_rated

C9_Witness ==
    /\ "step4" \in stepsDone
    /\ res.n_sat > 0
    /\ res.n_unsat_broad > 0
    /\ Cardinality(NeitherIdx) > 0
    /\ res.n_rated < Len(rows)

QEOutcomeIdx ==
    { i \in DOMAIN rows : NonBlank(rows[i].QE) /\ NonBlank(rows[i].Outcome) }

DecadeCount(d, k) ==
    IF k \in DOMAIN d THEN d[k].high_total + d[k].low_total ELSE 0

Buckets == { 1900 + 10 * j : j \in 0..12 }

\* C10: in the decade analysis a record with non-blank QE and Outcome goes to
\* bucket (fy // 10) * 10 iff its fiscal year parses as an integer and the
\* bucket is >= 1970; other records are left out of the decade analysis only
\* and still count in the other slices; 1987 goes to 1980, 1965 is excluded.
C10_DecadeBuckets ==
    "step12" \in stepsDone =>
        /\ \A i \in QEOutcomeIdx :
              /\ HasDecade(rows[i]) <=> ~decade_key(rows[i]).skip
              /\ HasDecade(rows[i]) =>
                    decade_key(rows[i]).key = BucketOf(rows[i])
        /\ \A k \in DOMAIN res.decades : k \in Buckets /\ k >= 1970
        /\ \A k \in Buckets :
              DecadeCount(res.decades, k)
                = Cardinality({ i \in StrictIdx :
                                  HasDecade(rows[i]) /\ BucketOf(rows[i]) = k })
        /\ \A i \in StrictIdx :
              /\ Trimmed(rows[i].FY) = <<"1987">> => 1980 \in DOMAIN res.decades
              /\ Trimmed(rows[i].FY) = <<"1965">> => 1960 \notin DOMAIN res.decades
        /\ res.qe.high_n + res.qe.low_n = Cardinality(StrictIdx)
        /\ PartitionSum(res.sectors)
             = Cardinality({ i \in StrictIdx : HasSector(rows[i]) })
        /\ PartitionSum(res.regions)
             = Cardinality({ i \in StrictIdx : HasRegion(rows[i]) })

C10_Witness ==
    /\ "step12" \in stepsDone
    /\ \E i \in StrictIdx : Trimmed(rows[i].FY) = <<"1987">>
    /\ \E i \in StrictIdx : Trimmed(rows[i].FY) = <<"1965">>
    /\ \E i \in StrictIdx : ~FYParses(rows[i])
    /\ DecadeCount(res.decades, 1980) >= 1
    /\ DecadeCount(res.decades, 1960) = 0
    /\ PartitionSum(res.decades) < PartitionSum(res.sectors)
\* records whose trimmed QE and M&E labels are keys of the scoring maps and
\* whose Outcome is non-blank
IncludedIdx ==
    { i \in DOMAIN rows : /\ Trimmed(rows[i].QE) \in DOMAIN qae_map
                          /\ Trimmed(rows[i].ME) \in DOMAIN me_map
                          /\ NonBlank(rows[i].Outcome) }

ScoreOf(i) == qae_map[Trimmed(rows[i].QE)] + me_map[Trimmed(rows[i].ME)]

BinTotal(bins, c) == IF c \in DOMAIN bins THEN bins[c].total ELSE 0

\* rated records with the given trimmed QE and M&E labels
LabelledIdx(qe, me) ==
    { i \in RatedIdx : /\ Trimmed(rows[i].QE) = Str(qe)
                       /\ Trimmed(rows[i].ME) = Str(me) }

Scores == 0..12

\* C11: in Step 14 a record is counted in bucket qae_score + me_score iff its
\* trimmed QE and M&E labels are both keys of the scoring maps and its
\* Outcome is non-blank; any other record is in no bucket; Highly
\* Satisfactory (5) + Substantial (4) is bucket 9, Satisfactory (4) + Not
\* Applicable (1) is bucket 5; the printed TOTAL is the number of included
\* records.
C11_CombinedScoreBuckets ==
    "step14" \in stepsDone =>
        /\ DOMAIN res.score_bins \subseteq Scores
        /\ \A c \in Scores :
              BinTotal(res.score_bins, c)
                = Cardinality({ i \in IncludedIdx : ScoreOf(i) = c })
        /\ res.total_tier1 = Cardinality(IncludedIdx)
        /\ \A i \in LabelledIdx("Highly Satisfactory", "Substantial") :
              ScoreOf(i) = 9 /\ BinTotal(res.score_bins, 9) >= 1
        /\ \A i \in LabelledIdx("Satisfactory", "Not Applicable") :
              ScoreOf(i) = 5 /\ BinTotal(res.score_bins, 5) >= 1
        /\ BinTotal(res.score_bins, 9)
              >= Cardinality(LabelledIdx("Highly Satisfactory", "Substantial"))
        /\ BinTotal(res.score_bins, 5)
              >= Cardinality(LabelledIdx("Satisfactory", "Not Applicable"))

C11_Witness ==
    /\ "step14" \in stepsDone
    /\ LabelledIdx("Highly Satisfactory", "Substantial") # {}
    /\ LabelledIdx("Satisfactory", "Not Applicable") # {}
    /\ BinTotal(res.score_bins, 9) >= 1
    /\ BinTotal(res.score_bins, 5) >= 1
    /\ RatedIdx \ IncludedIdx # {}
    /\ res.total_tier1 < Cardinality(RatedIdx)

\* rated records whose trimmed country is in the SIDS / Pacific list
SIDSIdx == { i \in RatedIdx : Trimmed(rows[i].Country) \in SIDS_COUNTRIES }
PacificIdx ==
    { i \in RatedIdx : Trimmed(rows[i].Country) \in PACIFIC_COUNTRIES }

\* rated records of one country
CountryIdx(name) == { i \in RatedIdx : Trimmed(rows[i].Country) = Str(name) }

\* C12: a record with a non-blank Outcome is counted in the SIDS total iff
\* its trimmed country is in the SIDS list and in the Pacific total iff it is
\* in the Pacific list, each on its own; a Fiji record is counted in both
\* totals, a Singapore record in the SIDS total only.
C12_GeographicMembership ==
    "step9" \in stepsDone =>
        /\ res.sids.n = Cardinality(SIDSIdx)
        /\ res.pacific.n = Cardinality(PacificIdx)
        /\ CountryIdx("Fiji") \subseteq SIDSIdx \cap PacificIdx
        /\ CountryIdx("Singapore") \subseteq SIDSIdx \ PacificIdx
        /\ res.sids.n >= Cardinality(CountryIdx("Fiji") \cup CountryIdx("Singapore"))
        /\ res.pacific.n >= Cardinality(CountryIdx("Fiji"))
        /\ res.pacific.n + Cardinality(CountryIdx("Singapore"))
              <= Cardinality(RatedIdx)

C12_Witness ==
    /\ "step9" \in stepsDone
    /\ \E i \in CountryIdx("Fiji") : rows[i].Country # Str("Fiji")
    /\ CountryIdx("Singapore") # {}
    /\ RatedIdx \ SIDSIdx # {}
    /\ res.sids.n = Cardinality(CountryIdx("Fiji")) + Cardinality(CountryIdx("Singapore"))
    /\ res.pacific.n = Cardinality(CountryIdx("Fiji"))
    /\ res.pacific.n < res.sids.n

\* the printed odds ratio of a HIGH / LOW comparison is the symbol when the
\* high-group failure count or the low-group success count is 0
SentinelAsSymbol(t) ==
    (t.high_unsat = 0 \/ t.low_sat = 0) =>
        t.printed_OR.kind = INFINITY_SYMBOL

\* the same for the rows of a stratified table t printed from dictionary d
TableSentinelAsSymbol(d, t) ==
    \A k \in DOMAIN t :
        (t[k].h_fail = 0 \/ d[k].low_sat = 0) =>
            t[k].or_str.kind = INFINITY_SYMBOL

\* C13: in every step that prints an odds ratio (Steps 5, 5b, 6, 8, 9 and the
\* tables of Steps 10-13), whenever the high-group failure count is 0 or the
\* low-group success count is 0, the printed odds ratio is the infinity
\* symbol and the result of odds_ratio is not formatted as a number.
C13_InfinityRenderedAsSymbol ==
    /\ "step5" \in stepsDone => SentinelAsSymbol(res.qe)
    /\ "step5b" \in stepsDone => SentinelAsSymbol(res.qe_broad)
    /\ "step6" \in stepsDone => SentinelAsSymbol(res.qs)
    /\ (/\ "step8" \in stepsDone
        /\ res.cert.OR_cert.called
        /\ \/ res.cert.certify_n - res.cert.cert_sat = 0
           \/ res.cert.rej_sat = 0)
          => res.cert.OR_cert.printed_OR.kind = INFINITY_SYMBOL
    /\ ("step9" \in stepsDone /\ res.sids.qe.called) =>
          SentinelAsSymbol(res.sids.qe)
    /\ ("step9" \in stepsDone /\ res.pacific.qe.called) =>
          SentinelAsSymbol(res.pacific.qe)
    /\ "step10" \in stepsDone =>
          TableSentinelAsSymbol(res.sectors, res.sector_table)
    /\ "step11" \in stepsDone =>
          TableSentinelAsSymbol(res.regions, res.region_table)
    /\ "step12" \in stepsDone =>
          TableSentinelAsSymbol(res.decades, res.decade_table)
    /\ "step13" \in stepsDone =>
          /\ TableSentinelAsSymbol(res.lending_groups, res.lending_table)
          /\ TableSentinelAsSymbol(res.fcs_groups, res.fcs_table)

\* the step ran to its end or the run died in it
Ended(step) ==
    \/ step \in stepsDone
    \/ pc = "crashed" /\ res.crashed_in = step

\* the partitions whose strict-group size reaches the threshold
Reaching(d, threshold) ==
    { k \in DOMAIN d : d[k].high_total + d[k].low_total >= threshold }

\* the keys of the rows printed for a table
PrintedKeys(tname) == IF tname \in DOMAIN res THEN DOMAIN res[tname] ELSE {}

\* C14: a partition's row is printed iff its strict-group size n =
\* high_total + low_total reaches the threshold of the dimension, 20 for
\* sector, 10 for region and decade, 5 for lending group and FCS status;
\* suppression leaves the accumulated counts of every partition and the other
\* reported totals as they are.
C14_RowPrintedIffThreshold ==
    /\ Ended("step10") =>
          /\ PrintedKeys("sector_table") = Reaching(res.sectors, 20)
          /\ PartitionSum(res.sectors)
               = Cardinality({ i \in StrictIdx : HasSector(rows[i]) })
    /\ Ended("step11") =>
          /\ PrintedKeys("region_table") = Reaching(res.regions, 10)
          /\ PartitionSum(res.regions)
               = Cardinality({ i \in StrictIdx : HasRegion(rows[i]) })
    /\ Ended("step12") =>
          /\ PrintedKeys("decade_table") = Reaching(res.decades, 10)
          /\ PartitionSum(res.decades)
               = Cardinality({ i \in StrictIdx : HasDecade(rows[i]) })
    /\ Ended("step13") =>
          /\ PrintedKeys("lending_table") = Reaching(res.lending_groups, 5)
          /\ PartitionSum(res.lending_groups)
               = Cardinality({ i \in StrictIdx : HasLending(rows[i]) })
          /\ "fcs_groups" \in DOMAIN res =>
                /\ PrintedKeys("fcs_table") = Reaching(res.fcs_groups, 5)
                /\ PartitionSum(res.fcs_groups)
                     = Cardinality({ i \in StrictIdx : HasFCS(rows[i]) })
          /\ res.total = Len(rows)
          /\ res.qe.high_n + res.qe.low_n = Cardinality(StrictIdx)

\* the dictionaries so far and the one after record r under key k
Extend(acc, r, k) == Append(acc, AccumulateOne(acc[Len(acc)], r, k))

\* the dictionaries after 0, 1, ..., i records of the accumulation loop
RECURSIVE PrefixesUpTo(_, _, _)
PrefixesUpTo(recs, keys, i) ==
    IF i = 0 THEN << <<>> >>
    ELSE Extend(PrefixesUpTo(recs, keys, i - 1), recs[i], keys[i])

PrefixDicts(recs, keys) == PrefixesUpTo(recs, keys, Len(recs))

WellFormed(e) ==
    /\ 0 <= e.high_sat /\ e.high_sat <= e.high_total
    /\ 0 <= e.low_sat /\ e.low_sat <= e.low_total

\* the growth of one counter of partition k over one record
Growth(before, after, k, field) ==
    Entry(after, k)[field] - Entry(before, k)[field]

\* one record: no counter shrinks or grows by more than 1, and at most one
\* group total of one partition grows
OneRecord(before, after) ==
    /\ DOMAIN before \subseteq DOMAIN after
    /\ \A k \in DOMAIN after :
          \A f \in {"high_total", "high_sat", "low_total", "low_sat"} :
              Growth(before, after, k, f) \in {0, 1}
    /\ Cardinality({ kf \in (DOMAIN after) \X {"high_total", "low_total"} :
                       Growth(before, after, kf[1], kf[2]) = 1 }) <= 1

\* the invariant on every prefix of the loop that ends in dictionary d
PrefixInvariant(acc, d) ==
    /\ Len(acc) = Len(has_qe_outcome) + 1
    /\ acc[1] = <<>>
    /\ acc[Len(acc)] = d
    /\ \A i \in DOMAIN acc : \A k \in DOMAIN acc[i] : WellFormed(acc[i][k])
    /\ \A i \in DOMAIN acc : i > 1 => OneRecord(acc[i - 1], acc[i])

\* the failure counts of the printed rows are those of d and not negative
FailuresOf(d, t) ==
    \A k \in DOMAIN t :
        /\ t[k].h_fail = d[k].high_total - d[k].high_sat
        /\ t[k].l_fail = d[k].low_total - d[k].low_sat
        /\ t[k].h_fail >= 0 /\ t[k].l_fail >= 0

\* C15: in the stratified slices, after any prefix of the records every
\* partition has 0 <= high_sat <= high_total and 0 <= low_sat <= low_total,
\* each record adds exactly 1 to at most one of high_total and low_total,
\* and so the failure counts handed to odds_ratio are never negative.
C15_AccumulationInvariant ==
    /\ "step10" \in stepsDone =>
          /\ PrefixInvariant(
                 PrefixDicts(has_qe_outcome,
                    [i \in DOMAIN has_qe_outcome |->
                        sector_key(has_qe_outcome[i])]),
                 res.sectors)
          /\ FailuresOf(res.sectors, res.sector_table)
    /\ "step11" \in stepsDone =>
          /\ PrefixInvariant(
                 PrefixDicts(has_qe_outcome,
                    [i \in DOMAIN has_qe_outcome |->
                        region_key(has_qe_outcome[i])]),
                 res.regions)
          /\ FailuresOf(res.regions, res.region_table)
    /\ "step12" \in stepsDone =>
          /\ PrefixInvariant(
                 PrefixDicts(has_qe_outcome,
                    [i \in DOMAIN has_qe_outcome |->
                        decade_key(has_qe_outcome[i])]),
                 res.decades)
          /\ FailuresOf(res.decades, res.decade_table)
    /\ "step13" \in stepsDone =>
          /\ PrefixInvariant(
                 PrefixDicts(has_qe_outcome,
                    [i \in DOMAIN has_qe_outcome |->
                        lending_key(has_qe_outcome[i])]),
                 res.lending_groups)
          /\ FailuresOf(res.lending_groups, res.lending_table)
          /\ PrefixInvariant(
                 PrefixDicts(has_qe_outcome,
                    [i \in DOMAIN has_qe_outcome |->
                        fcs_key(has_qe_outcome[i])]),
                 res.fcs_groups)
          /\ FailuresOf(res.fcs_groups, res.fcs_table)

C15_Witness ==
    /\ "step13" \in stepsDone
    /\ \E k \in DOMAIN res.lending_table :
          /\ res.lending_table[k].h_fail > 0
          /\ res.lending_table[k].l_fail > 0
          /\ res.lending_table[k].or_str.kind = "number"
          /\ res.lending_groups[k].high_sat > 0
          /\ res.lending_groups[k].low_sat > 0
    /\ \E k \in DOMAIN res.regions :
          /\ res.regions[k].high_total >= 2
          /\ res.regions[k].high_sat > 0
          /\ res.regions[k].high_sat < res.regions[k].high_total
          /\ res.regions[k].low_total = 0

====
